---------------------------- MODULE Spec2Model ----------------------------
(***************************************************************************)
(* Model of silence_split.py: the orchestration of an external media       *)
(* engine (ffmpeg) that cuts a long recording at detected silences.        *)
(*                                                                         *)
(* Times are whole seconds.  The output directory is the function `disk`   *)
(* from file names to file contents; a file exists iff its name is in      *)
(* DOMAIN disk.  File names are triples:                                   *)
(*    <<"chunk", n, 0>>      chunk_<n>.wav                                 *)
(*    <<"silence", n, thr>>  chunk_<n>_silence_<thr>.json                  *)
(*    <<"split", k, 0>>      split_<k>.<container_format>                  *)
(*    <<"cover", k, 0>>      split_<k>.jpg                                 *)
(* A file content is [state, data]: state "complete" or "partial" (the     *)
(* writer was interrupted), data a sequence describing what was written.   *)
(* Every call of the external engine is appended to `calls`.               *)
(***************************************************************************)
EXTENDS Integers, Sequences, FiniteSets, TLC

\* ------------------------------------------------------------- bounds
MaxRuns == 2
MaxChunkNo == 2
MaxLines == 3

\* `if silence_start - prev_end < 10`
MIN_SEGMENT == 10

Durations == {30, 40}
ChunkDurations == {20, 30}
Thresholds == {-40, -30}
SilenceDurations == {1, 2}

ArgSets == [chunk_duration : ChunkDurations,
            silence_threshold : Thresholds,
            silence_duration : SilenceDurations]

\* ------------------------------------------------------------- state
VARIABLES
    T,             \* probe['format']['duration'] of the source file
    args,          \* chunk_duration, silence_threshold, silence_duration of the run
    disk,          \* the output directory
    pc,            \* where the run is
    num_chunks, i, chunk_files,      \* extract_audio_chunks
    j,                               \* process_mkv_file: index of the detection loop
    all_silences, prev_end, split_count, pos,   \* split_original_by_silence
    calls,         \* the engine calls of the current run, in order
    runs,          \* number of runs started
    prevRun,       \* the previous run: its arguments and how it ended
    stderr, lineNo, parse, ppc,      \* detect_silence: the parse of the diagnostics
    rpc, rj, rsil, rwrites           \* two concurrent runs in the detection loop

pipeVars == <<T, args, disk, pc, num_chunks, i, chunk_files, j, all_silences,
              prev_end, split_count, pos, calls, runs, prevRun>>
parseVars == <<stderr, lineNo, parse, ppc>>
raceVars == <<rpc, rj, rsil, rwrites>>
vars == <<pipeVars, parseVars, raceVars>>

\* ------------------------------------------------------------- files
ChunkFile(n) == <<"chunk", n, 0>>
\* Mutant: the threshold left out of the cache file name.
CacheFileNoThreshold(n, thr) == <<"silence", n, 0>>
CacheFile(n, thr) == <<"silence", n, thr>>
SplitFile(k) == <<"split", k, 0>>
CoverFile(k) == <<"cover", k, 0>>

Complete(data) == [state |-> "complete", data |-> data]
PartialFile == [state |-> "partial", data |-> <<>>]

Exists(d, f) == f \in DOMAIN d
Write(d, f, content) == (f :> content) @@ d

Call(op, f, a) == [op |-> op, file |-> f, args |-> a]
SourceFile == <<"source", 0, 0>>
Probe == Call("probe", SourceFile, <<>>)

\* ------------------------------------------------------------- helpers
\* Mutant: integer division instead of the ceiling.
FloorDiv(a, b) == a \div b

\* math.ceil(duration / chunk_duration)
CeilDiv(a, b) == IF a % b = 0 THEN a \div b ELSE (a \div b) + 1

RECURSIVE SortedSeq(_)
SortedSeq(S) ==
    IF S = {} THEN <<>>
    ELSE LET m == CHOOSE x \in S : \A y \in S : x <= y
         IN <<m>> \o SortedSeq(S \ {m})

\* ------------------------------------------------------------- detect_silence
\* One diagnostic line: kind "silence_start", "silence_end" or "other".
Line(kind, t) == [kind |-> kind, t |-> t]

ParseInit == [start |-> <<>>, silences |-> <<>>, raised |-> FALSE]

\* One iteration of `for line in stderr_output.splitlines()`.  `start` is a
\* local that is unbound (<<>>) until the first silence_start line; reading it
\* unbound raises.  It is never cleared after an interval is appended.
ParseLine(st, line) ==
    LET s1 == IF line.kind = "silence_start" THEN <<line.t>> ELSE st.start
    IN  IF line.kind = "silence_end"
        THEN IF s1 = <<>>
             THEN [st EXCEPT !.raised = TRUE]
             ELSE [start |-> s1,
                   silences |-> Append(st.silences, <<s1[1], line.t>>),
                   raised |-> FALSE]
        ELSE [st EXCEPT !.start = s1]

RECURSIVE ParseFrom(_, _, _)
ParseFrom(st, lines, k) ==
    IF k > Len(lines) \/ st.raised THEN st
    ELSE ParseFrom(ParseLine(st, lines[k]), lines, k + 1)

DetectSilence(lines) == ParseFrom(ParseInit, lines, 1)

\* Diagnostics the engine gives for a chunk in the pipeline runs: no silence,
\* one silence, and an end marker with no start marker before it.
Diagnostics ==
    { <<>>,
      <<Line("silence_start", 12), Line("silence_end", 15)>>,
      <<Line("other", 0), Line("silence_end", 15)>> }

\* ------------------------------------------------------------- process_mkv_file
ParseOff == stderr = <<>> /\ lineNo = 0 /\ parse = ParseInit /\ ppc = "off"
RaceOff == rpc = <<>> /\ rj = <<>> /\ rsil = <<>> /\ rwrites = <<>>

Init ==
    /\ T \in Durations
    /\ args \in ArgSets
    /\ disk = <<>>
    /\ pc = "start"
    /\ num_chunks = 0 /\ i = 0 /\ chunk_files = <<>> /\ j = 1
    /\ all_silences = <<>> /\ prev_end = 0 /\ split_count = 0 /\ pos = 1
    /\ calls = <<>>
    /\ runs = 1
    /\ prevRun = [args |-> args, outcome |-> "none"]
    /\ ParseOff
    /\ RaceOff

\* extract_audio_chunks up to its loop: probe, number of chunks.
BeginChunks ==
    /\ pc = "start"
    /\ calls' = Append(calls, Probe)
    /\ num_chunks' = CeilDiv(T, args.chunk_duration)
    /\ i' = 0
    /\ chunk_files' = <<>>
    /\ pc' = "chunking"
    /\ UNCHANGED <<T, args, disk, j, all_silences, prev_end, split_count, pos,
                   runs, prevRun, parseVars, raceVars>>

ChunkExists(n) == Exists(disk, ChunkFile(n))

ChunkCall(n) ==
    Call("extract_chunk", ChunkFile(n),
         <<(n - 1) * args.chunk_duration, args.chunk_duration>>)

\* One iteration of `for i in range(num_chunks)`.
ExtractChunk ==
    /\ pc = "chunking"
    /\ i < num_chunks
    /\ IF ChunkExists(i + 1)
       THEN UNCHANGED <<disk, calls>>
       ELSE /\ calls' = Append(calls, ChunkCall(i + 1))
            /\ disk' = Write(disk, ChunkFile(i + 1), Complete(ChunkCall(i + 1).args))
    /\ chunk_files' = Append(chunk_files, i + 1)
    /\ i' = i + 1
    /\ UNCHANGED <<T, args, pc, num_chunks, j, all_silences, prev_end, split_count,
                   pos, runs, prevRun, parseVars, raceVars>>

\* The process is interrupted while the engine writes the chunk.
KillExtractChunk ==
    /\ pc = "chunking"
    /\ i < num_chunks
    /\ ~ChunkExists(i + 1)
    /\ calls' = Append(calls, ChunkCall(i + 1))
    /\ disk' = Write(disk, ChunkFile(i + 1), PartialFile)
    /\ pc' = "killed"
    /\ UNCHANGED <<T, args, num_chunks, i, chunk_files, j, all_silences, prev_end,
                   split_count, pos, runs, prevRun, parseVars, raceVars>>

\* `return chunk_files`, and the detection loop starts.
ChunksReturn ==
    /\ pc = "chunking"
    /\ i = num_chunks
    /\ pc' = "detecting"
    /\ j' = 1
    /\ UNCHANGED <<T, args, disk, num_chunks, i, chunk_files, all_silences, prev_end,
                   split_count, pos, calls, runs, prevRun, parseVars, raceVars>>

CacheExists(n, thr) == Exists(disk, CacheFile(n, thr))

DetectCall(n) ==
    Call("silencedetect", ChunkFile(n),
         <<args.silence_threshold, args.silence_duration>>)

\* One iteration of `for chunk_file in chunk_files`.
DetectChunk ==
    /\ pc = "detecting"
    /\ j <= Len(chunk_files)
    /\ LET n == chunk_files[j]
           f == CacheFile(n, args.silence_threshold)
       IN IF CacheExists(n, args.silence_threshold)
          THEN /\ j' = j + 1
               /\ UNCHANGED <<disk, calls, pc>>
          ELSE \E out \in Diagnostics :
                 LET r == DetectSilence(out)
                 IN /\ calls' = Append(calls, DetectCall(n))
                    /\ IF r.raised
                       THEN /\ pc' = "failed"
                            /\ UNCHANGED <<disk, j>>
                       ELSE /\ disk' = Write(disk, f, Complete(r.silences))
                            /\ j' = j + 1
                            /\ UNCHANGED pc
    /\ UNCHANGED <<T, args, num_chunks, i, chunk_files, all_silences, prev_end,
                   split_count, pos, runs, prevRun, parseVars, raceVars>>

\* The process is interrupted inside `with open(silence_cache_file, 'w')`.
KillDetectChunk ==
    /\ pc = "detecting"
    /\ j <= Len(chunk_files)
    /\ ~CacheExists(chunk_files[j], args.silence_threshold)
    /\ calls' = Append(calls, DetectCall(chunk_files[j]))
    /\ disk' = Write(disk, CacheFile(chunk_files[j], args.silence_threshold), PartialFile)
    /\ pc' = "killed"
    /\ UNCHANGED <<T, args, num_chunks, i, chunk_files, j, all_silences, prev_end,
                   split_count, pos, runs, prevRun, parseVars, raceVars>>

DetectReturn ==
    /\ pc = "detecting"
    /\ j > Len(chunk_files)
    /\ pc' = "loading"
    /\ UNCHANGED <<T, args, disk, num_chunks, i, chunk_files, j, all_silences, prev_end,
                   split_count, pos, calls, runs, prevRun, parseVars, raceVars>>

\* ------------------------------------------------------------- split_original_by_silence
\* The numbers n of the files chunk_<n>_silence_<thr>.json of the directory.
CacheNumbers(d, thr) == { f[2] : f \in { g \in DOMAIN d : g[1] = "silence" /\ g[3] = thr } }

\* sort_chunks: ascending by the number in the file name.
SortChunks(S) == SortedSeq(S)

\* Mutant: the number in the file name taken as the index.
ChunkOffsetByNumber(n, chunk_duration) == n * chunk_duration

\* `chunk_idx = int(chunk_file.split('_')[1]) - 1; chunk_offset = chunk_idx * chunk_duration`
ChunkOffset(n, chunk_duration) == (n - 1) * chunk_duration

AdjustSilence(s, off) == <<s[1] + off, s[2] + off>>

AdjustedSilences(silences, off) ==
    [k \in 1..Len(silences) |-> AdjustSilence(silences[k], off)]

RECURSIVE LoadAll(_, _, _, _)
LoadAll(d, thr, nums, chunk_duration) ==
    IF nums = <<>> THEN <<>>
    ELSE AdjustedSilences(d[CacheFile(Head(nums), thr)].data,
                          ChunkOffset(Head(nums), chunk_duration))
         \o LoadAll(d, thr, Tail(nums), chunk_duration)

\* Lines 114-145: list and sort the cache files of the threshold, probe the
\* codec, load every file (json.load raises on a partial file).
LoadSilences ==
    /\ pc = "loading"
    /\ LET nums == SortChunks(CacheNumbers(disk, args.silence_threshold))
           bad == \E k \in 1..Len(nums) :
                     disk[CacheFile(nums[k], args.silence_threshold)].state = "partial"
       IN /\ calls' = Append(calls, Probe)
          /\ IF bad
             THEN /\ pc' = "failed"
                  /\ UNCHANGED all_silences
             ELSE /\ pc' = "splitting"
                  /\ all_silences' = LoadAll(disk, args.silence_threshold, nums,
                                             args.chunk_duration)
    /\ prev_end' = 0
    /\ split_count' = 0
    /\ pos' = 1
    /\ UNCHANGED <<T, args, disk, num_chunks, i, chunk_files, j, runs, prevRun,
                   parseVars, raceVars>>

\* Mutant: the start compared without subtracting prev_end.
TooShortNoPrev(silence_start, pe) == silence_start < MIN_SEGMENT

\* `if silence_start - prev_end < 10`
TooShort(silence_start, pe) == silence_start - pe < MIN_SEGMENT

SplitExists(k) == Exists(disk, SplitFile(k))

\* Mutant: the existence of the next split's cover is tested.
CoverExistsNextName(k) == Exists(disk, CoverFile(k + 1))
CoverExists(k) == Exists(disk, CoverFile(k))

\* Mutant: the split cut at the end of the silence.
SplitRangeToEnd(pe, silence) == <<pe, silence[2]>>

\* ffmpeg.input(mkv_file, ss=prev_end, to=silence_start)
SplitRange(pe, silence) == <<pe, silence[1]>>

SplitCall(k, range) == Call("extract_split", SplitFile(k), range)

\* extract_middle_frame: the frame at (start_time + end_time) / 2, kept as the
\* sum start_time + end_time (twice the time) to stay in the integers.
FrameCall(k, start_time, end_time) ==
    Call("extract_frame", CoverFile(k), <<start_time + end_time>>)

\* Mutant: no increment on the skipped branch.
NextCountNoSkip(sc, short) == IF short THEN sc ELSE sc + 1

\* `split_count += 1` of both branches of the loop.
NextCount(sc, short) == sc + 1

\* One iteration of `for silence in all_silences`.
SplitStep ==
    /\ pc = "splitting"
    /\ pos <= Len(all_silences)
    /\ LET silence == all_silences[pos]
           k == split_count + 1
           short == TooShort(silence[1], prev_end)
           audio == SplitCall(k, SplitRange(prev_end, silence))
           image == FrameCall(k, prev_end, silence[1])
           c1 == IF SplitExists(k) THEN calls ELSE Append(calls, audio)
           d1 == IF SplitExists(k) THEN disk
                 ELSE Write(disk, SplitFile(k), Complete(audio.args))
       IN /\ IF short
             THEN UNCHANGED <<disk, calls>>
             ELSE /\ calls' = IF CoverExists(k) THEN c1 ELSE Append(c1, image)
                  /\ disk' = IF CoverExists(k) THEN d1
                             ELSE Write(d1, CoverFile(k), Complete(image.args))
          /\ split_count' = NextCount(split_count, short)
          /\ prev_end' = silence[2]
    /\ pos' = pos + 1
    /\ UNCHANGED <<T, args, pc, num_chunks, i, chunk_files, j, all_silences, runs,
                   prevRun, parseVars, raceVars>>

\* The process is interrupted while the engine writes split_<k>.<ext>.
KillSplitAudio ==
    /\ pc = "splitting"
    /\ pos <= Len(all_silences)
    /\ ~TooShort(all_silences[pos][1], prev_end)
    /\ ~SplitExists(split_count + 1)
    /\ calls' = Append(calls, SplitCall(split_count + 1,
                                        SplitRange(prev_end, all_silences[pos])))
    /\ disk' = Write(disk, SplitFile(split_count + 1), PartialFile)
    /\ pc' = "killed"
    /\ UNCHANGED <<T, args, num_chunks, i, chunk_files, j, all_silences, prev_end,
                   split_count, pos, runs, prevRun, parseVars, raceVars>>

\* The process is interrupted while the engine writes split_<k>.jpg.
KillSplitCover ==
    /\ pc = "splitting"
    /\ pos <= Len(all_silences)
    /\ ~TooShort(all_silences[pos][1], prev_end)
    /\ ~CoverExists(split_count + 1)
    /\ LET k == split_count + 1
           audio == SplitCall(k, SplitRange(prev_end, all_silences[pos]))
           image == FrameCall(k, prev_end, all_silences[pos][1])
           c1 == IF SplitExists(k) THEN calls ELSE Append(calls, audio)
           d1 == IF SplitExists(k) THEN disk
                 ELSE Write(disk, SplitFile(k), Complete(audio.args))
       IN /\ calls' = Append(c1, image)
          /\ disk' = Write(d1, CoverFile(k), PartialFile)
    /\ pc' = "killed"
    /\ UNCHANGED <<T, args, num_chunks, i, chunk_files, j, all_silences, prev_end,
                   split_count, pos, runs, prevRun, parseVars, raceVars>>

\* ffmpeg.input(mkv_file, ss=prev_end): the rest of the file, no `to`.
FinalCall(k, pe) == Call("extract_split", SplitFile(k), <<pe>>)

\* Lines 180-199: the final split and its cover; the duration is probed again
\* only when the cover is extracted.
FinalSplit ==
    /\ pc = "splitting"
    /\ pos > Len(all_silences)
    /\ LET k == split_count + 1
           audio == FinalCall(k, prev_end)
           image == FrameCall(k, prev_end, T)
           c1 == IF SplitExists(k) THEN calls ELSE Append(calls, audio)
           d1 == IF SplitExists(k) THEN disk
                 ELSE Write(disk, SplitFile(k), Complete(audio.args))
       IN /\ calls' = IF CoverExists(k) THEN c1 ELSE c1 \o <<Probe, image>>
          /\ disk' = IF CoverExists(k) THEN d1
                     ELSE Write(d1, CoverFile(k), Complete(image.args))
    /\ pc' = "done"
    /\ UNCHANGED <<T, args, num_chunks, i, chunk_files, j, all_silences, prev_end,
                   split_count, pos, runs, prevRun, parseVars, raceVars>>

KillFinalAudio ==
    /\ pc = "splitting"
    /\ pos > Len(all_silences)
    /\ ~SplitExists(split_count + 1)
    /\ calls' = Append(calls, FinalCall(split_count + 1, prev_end))
    /\ disk' = Write(disk, SplitFile(split_count + 1), PartialFile)
    /\ pc' = "killed"
    /\ UNCHANGED <<T, args, num_chunks, i, chunk_files, j, all_silences, prev_end,
                   split_count, pos, runs, prevRun, parseVars, raceVars>>

KillFinalCover ==
    /\ pc = "splitting"
    /\ pos > Len(all_silences)
    /\ ~CoverExists(split_count + 1)
    /\ LET k == split_count + 1
           audio == FinalCall(k, prev_end)
           image == FrameCall(k, prev_end, T)
           c1 == IF SplitExists(k) THEN calls ELSE Append(calls, audio)
           d1 == IF SplitExists(k) THEN disk
                 ELSE Write(disk, SplitFile(k), Complete(audio.args))
       IN /\ calls' = c1 \o <<Probe, image>>
          /\ disk' = Write(d1, CoverFile(k), PartialFile)
    /\ pc' = "killed"
    /\ UNCHANGED <<T, args, num_chunks, i, chunk_files, j, all_silences, prev_end,
                   split_count, pos, runs, prevRun, parseVars, raceVars>>

\* The command is run again on the same source, with any arguments.
Rerun ==
    /\ pc \in {"done", "killed", "failed"}
    /\ runs < MaxRuns
    /\ runs' = runs + 1
    /\ prevRun' = [args |-> args, outcome |-> pc]
    /\ args' \in ArgSets
    /\ pc' = "start"
    /\ calls' = <<>>
    /\ UNCHANGED <<T, disk, num_chunks, i, chunk_files, j, all_silences, prev_end,
                   split_count, pos, parseVars, raceVars>>

Next ==
    \/ BeginChunks \/ ExtractChunk \/ KillExtractChunk \/ ChunksReturn
    \/ DetectChunk \/ KillDetectChunk \/ DetectReturn
    \/ LoadSilences
    \/ SplitStep \/ KillSplitAudio \/ KillSplitCover
    \/ FinalSplit \/ KillFinalAudio \/ KillFinalCover
    \/ Rerun

Spec == Init /\ [][Next]_vars

\* ------------------------------------------------------------- split_original_by_silence alone
\* Silence lists of one chunk, in chunk-local time, as detect_silence returns
\* them: ordered pairs, and one list with a reused start.
LocalSilences ==
    { <<>>,
      << <<4, 6>> >>,
      << <<12, 14>> >>,
      << <<15, 20>> >>,
      << <<4, 6>>, <<16, 18>> >>,
      << <<2, 5>>, <<12, 15>> >>,
      << <<2, 5>>, <<2, 9>> >> }

\* The directories holding the cache files of chunks 1..n of one threshold.
CacheDirs(n, thr) ==
    [ { CacheFile(k, thr) : k \in 1..n } -> { Complete(l) : l \in LocalSilences } ]

\* split_original_by_silence called on a directory of cache files and no split.
InitSplit ==
    /\ T \in Durations
    /\ args \in ArgSets
    /\ \E n \in 0..MaxChunkNo : disk \in CacheDirs(n, args.silence_threshold)
    /\ pc = "loading"
    /\ num_chunks = 0 /\ i = 0 /\ chunk_files = <<>> /\ j = 1
    /\ all_silences = <<>> /\ prev_end = 0 /\ split_count = 0 /\ pos = 1
    /\ calls = <<>>
    /\ runs = 1
    /\ prevRun = [args |-> args, outcome |-> "none"]
    /\ ParseOff
    /\ RaceOff

NextSplit == LoadSilences \/ SplitStep \/ FinalSplit

SpecSplit == InitSplit /\ [][NextSplit]_vars

\* ------------------------------------------------------------- detect_silence alone
ParseTimes == {0, 3, 8}

DiagnosticLines ==
    { Line("silence_start", t) : t \in ParseTimes }
    \cup { Line("silence_end", t) : t \in ParseTimes }
    \cup { Line("other", 0) }

DiagnosticOutputs == UNION { [1..n -> DiagnosticLines] : n \in 0..MaxLines }

PipeOff ==
    /\ T = 0
    /\ args = CHOOSE a \in ArgSets : TRUE
    /\ disk = <<>>
    /\ pc = "off"
    /\ num_chunks = 0 /\ i = 0 /\ chunk_files = <<>> /\ j = 1
    /\ all_silences = <<>> /\ prev_end = 0 /\ split_count = 0 /\ pos = 1
    /\ calls = <<>>
    /\ runs = 1
    /\ prevRun = [args |-> args, outcome |-> "none"]

InitParse ==
    /\ stderr \in DiagnosticOutputs
    /\ lineNo = 0
    /\ parse = ParseInit
    /\ ppc = "parsing"
    /\ PipeOff
    /\ RaceOff

\* One line of the diagnostics is read.
ParseNextLine ==
    /\ ppc = "parsing"
    /\ lineNo < Len(stderr)
    /\ parse' = ParseLine(parse, stderr[lineNo + 1])
    /\ lineNo' = lineNo + 1
    /\ ppc' = IF parse'.raised THEN "raised" ELSE "parsing"
    /\ UNCHANGED <<stderr, pipeVars, raceVars>>

\* `return silences`
ParseReturn ==
    /\ ppc = "parsing"
    /\ lineNo = Len(stderr)
    /\ ppc' = "returned"
    /\ UNCHANGED <<stderr, lineNo, parse, pipeVars, raceVars>>

NextParse == ParseNextLine \/ ParseReturn

SpecParse == InitParse /\ [][NextParse]_vars

\* ------------------------------------------------------------- two concurrent runs
\* Two processes run process_mkv_file on the same source and directory with
\* the same arguments; both are in the detection loop (lines 217-232), whose
\* existence check, detection and write are separate steps of a process.
Procs == {1, 2}

InitRace ==
    /\ T \in Durations
    /\ args \in ArgSets
    /\ num_chunks = CeilDiv(T, args.chunk_duration)
    /\ chunk_files = [k \in 1..num_chunks |-> k]
    /\ disk = [f \in { ChunkFile(k) : k \in 1..num_chunks } |->
                 Complete(<<(f[2] - 1) * args.chunk_duration, args.chunk_duration>>)]
    /\ pc = "off"
    /\ i = num_chunks /\ j = 1
    /\ all_silences = <<>> /\ prev_end = 0 /\ split_count = 0 /\ pos = 1
    /\ calls = <<>>
    /\ runs = 1
    /\ prevRun = [args |-> args, outcome |-> "none"]
    /\ ParseOff
    /\ rpc = [p \in Procs |-> "check"]
    /\ rj = [p \in Procs |-> 1]
    /\ rsil = [p \in Procs |-> <<>>]
    /\ rwrites = [k \in 1..num_chunks |-> 0]

\* Process p is between its existence check and the end of its write.
InWindow(p) == rpc[p] \in {"detect", "write"}

\* Mutant: the check waits while another process is in the window for the
\* same chunk (a lock around check, detection and write).
RaceCheckLocked(p) ==
    /\ rpc[p] = "check"
    /\ rj[p] <= Len(chunk_files)
    /\ \A q \in Procs \ {p} : ~(InWindow(q) /\ rj[q] = rj[p])
    /\ IF CacheExists(chunk_files[rj[p]], args.silence_threshold)
       THEN /\ rj' = [rj EXCEPT ![p] = @ + 1]
            /\ UNCHANGED rpc
       ELSE /\ rpc' = [rpc EXCEPT ![p] = "detect"]
            /\ UNCHANGED rj
    /\ UNCHANGED <<pipeVars, parseVars, rsil, rwrites>>

\* `if os.path.exists(silence_cache_file)`
RaceCheck(p) ==
    /\ rpc[p] = "check"
    /\ rj[p] <= Len(chunk_files)
    /\ IF CacheExists(chunk_files[rj[p]], args.silence_threshold)
       THEN /\ rj' = [rj EXCEPT ![p] = @ + 1]
            /\ UNCHANGED rpc
       ELSE /\ rpc' = [rpc EXCEPT ![p] = "detect"]
            /\ UNCHANGED rj
    /\ UNCHANGED <<pipeVars, parseVars, rsil, rwrites>>

\* `silences = detect_silence(chunk_file, silence_threshold, silence_duration)`
RaceDetect(p) ==
    /\ rpc[p] = "detect"
    /\ \E out \in Diagnostics :
         /\ rsil' = [rsil EXCEPT ![p] = DetectSilence(out).silences]
         /\ rpc' = [rpc EXCEPT ![p] = IF DetectSilence(out).raised
                                       THEN "failed" ELSE "write"]
    /\ UNCHANGED <<pipeVars, parseVars, rj, rwrites>>

\* `with open(silence_cache_file, 'w') as f: json.dump(silences, f, indent=4)`
RaceWrite(p) ==
    /\ rpc[p] = "write"
    /\ disk' = Write(disk, CacheFile(chunk_files[rj[p]], args.silence_threshold),
                     Complete(rsil[p]))
    /\ rwrites' = [rwrites EXCEPT ![chunk_files[rj[p]]] = @ + 1]
    /\ rj' = [rj EXCEPT ![p] = @ + 1]
    /\ rpc' = [rpc EXCEPT ![p] = "check"]
    /\ UNCHANGED <<T, args, pc, num_chunks, i, chunk_files, j, all_silences, prev_end,
                   split_count, pos, calls, runs, prevRun, parseVars, rsil>>

\* The loop of process p ends.
RaceReturn(p) ==
    /\ rpc[p] = "check"
    /\ rj[p] > Len(chunk_files)
    /\ rpc' = [rpc EXCEPT ![p] = "split"]
    /\ UNCHANGED <<pipeVars, parseVars, rj, rsil, rwrites>>

NextRace ==
    \E p \in Procs : RaceCheck(p) \/ RaceDetect(p) \/ RaceWrite(p) \/ RaceReturn(p)

SpecRace == InitRace /\ [][NextRace]_vars

\* ============================================================= properties
InSplitter == pc \in {"splitting", "done"}

\* prev_end when the k-th silence of the global list is reached.
PrevEndAt(k) == IF k = 1 THEN 0 ELSE all_silences[k - 1][2]

SpanBefore(k) == all_silences[k][1] - PrevEndAt(k)

IsLoopSplit(c) == c.op = "extract_split" /\ Len(c.args) = 2
IsFinalSplit(c) == c.op = "extract_split" /\ Len(c.args) = 1

CallsTo(f) == { c \in 1..Len(calls) : calls[c].file = f }

\* -------------------------------------------------------------------------
\* C1: every split made inside the loop covers [prev_end, silence_start) of at
\* least 10 seconds, and a span shorter than 10 seconds produces no split
\* audio and no cover.
C1_LoopSplitsAtLeastTen ==
    InSplitter =>
        /\ \A c \in 1..Len(calls) :
              IsLoopSplit(calls[c]) => calls[c].args[2] - calls[c].args[1] >= 10
        /\ \A k \in 1..(pos - 1) :
              SpanBefore(k) < 10 =>
                  /\ CallsTo(<<"split", k, 0>>) = {}
                  /\ CallsTo(<<"cover", k, 0>>) = {}
                  /\ <<"split", k, 0>> \notin DOMAIN disk
                  /\ <<"cover", k, 0>> \notin DOMAIN disk

C1_Witness ==
    /\ pc = "done"
    /\ \E k \in 1..Len(all_silences) : SpanBefore(k) < 10 /\ SpanBefore(k) >= 0
    /\ \E c \in 1..Len(calls) :
          IsLoopSplit(calls[c]) /\ calls[c].args[2] - calls[c].args[1] = 10

\* -------------------------------------------------------------------------
\* C2: round trip.  The durations of all splits plus the durations of all
\* silences equal the source duration.
SplitDuration(c) == IF Len(c.args) = 2 THEN c.args[2] - c.args[1] ELSE T - c.args[1]

RECURSIVE SumSplits(_)
SumSplits(n) ==
    IF n = 0 THEN 0
    ELSE SumSplits(n - 1)
         + (IF calls[n].op = "extract_split" THEN SplitDuration(calls[n]) ELSE 0)

RECURSIVE SumSilences(_)
SumSilences(n) ==
    IF n = 0 THEN 0
    ELSE SumSilences(n - 1) + (all_silences[n][2] - all_silences[n][1])

RECURSIVE SumSkipped(_)
SumSkipped(n) ==
    IF n = 0 THEN 0
    ELSE SumSkipped(n - 1) + (IF SpanBefore(n) < 10 THEN SpanBefore(n) ELSE 0)

\* The global list is time-ordered and lies within the source.
TimeOrdered ==
    /\ \A k \in 1..Len(all_silences) :
          /\ PrevEndAt(k) <= all_silences[k][1]
          /\ all_silences[k][1] <= all_silences[k][2]
          /\ all_silences[k][2] <= T

\* C2 as stated (on time-ordered lists within the source).
C2_RoundTrip ==
    (pc = "done" /\ TimeOrdered) =>
        SumSplits(Len(calls)) + SumSilences(Len(all_silences)) = T

\* C2 amended: the spans skipped as shorter than 10 seconds are counted too.
C2_RoundTripWithSkipped ==
    (pc = "done" /\ TimeOrdered) =>
        SumSplits(Len(calls)) + SumSilences(Len(all_silences))
            + SumSkipped(Len(all_silences)) = T

C2_Witness ==
    /\ pc = "done"
    /\ TimeOrdered
    /\ Len(all_silences) >= 2
    /\ \E k \in 1..Len(all_silences) : SpanBefore(k) < 10 /\ SpanBefore(k) > 0
    /\ \E c \in 1..Len(calls) : IsLoopSplit(calls[c])

\* -------------------------------------------------------------------------
\* C3: offset correctness.  The k-th interval [s, e] of the cache file numbered
\* n is placed in the global list, after the intervals of the lower-numbered
\* files, as [s + i*d, e + i*d].
CacheLen(n) ==
    IF <<"silence", n, args.silence_threshold>> \in DOMAIN disk
    THEN Len(disk[<<"silence", n, args.silence_threshold>>].data)
    ELSE 0

RECURSIVE CountBefore(_)
CountBefore(n) == IF n <= 1 THEN 0 ELSE CountBefore(n - 1) + CacheLen(n - 1)

MaxCacheNo ==
    LET S == { f[2] : f \in { g \in DOMAIN disk : g[1] = "silence" } }
    IN IF S = {} THEN 0 ELSE CHOOSE m \in S : \A x \in S : x <= m

\* The i of the claim is the number n of the file name less `less`.
PlacedWith(less) ==
    /\ Len(all_silences) = CountBefore(MaxCacheNo + 1)
    /\ \A n \in 1..MaxCacheNo : \A k \in 1..CacheLen(n) :
          LET se == disk[<<"silence", n, args.silence_threshold>>].data[k]
              off == (n - less) * args.chunk_duration
          IN all_silences[CountBefore(n) + k] = <<se[1] + off, se[2] + off>>

\* C3 as stated: i is the number embedded in the file name (from 1).
C3_OffsetByNumber == InSplitter => PlacedWith(0)

\* C3 amended: i is the number embedded in the file name minus one.
C3_OffsetByNumberLessOne == InSplitter => PlacedWith(1)

C3_Witness ==
    /\ InSplitter
    /\ CacheLen(1) >= 1
    /\ CacheLen(2) >= 1
    /\ all_silences[CountBefore(2) + 1][1] >= args.chunk_duration

\* -------------------------------------------------------------------------
\* C10: the split counter increases by one for every silence of the global
\* list; the split of the k-th silence is split_k, a merged silence leaves k
\* unused, the final split is split_(n+1), and no two splits share a number.
C10_SplitNumbering ==
    InSplitter =>
        /\ split_count = pos - 1
        /\ \A k \in 1..(pos - 1) :
              IF SpanBefore(k) < 10
              THEN CallsTo(<<"split", k, 0>>) = {}
              ELSE \E c \in CallsTo(<<"split", k, 0>>) :
                      /\ IsLoopSplit(calls[c])
                      /\ calls[c].args = <<PrevEndAt(k), all_silences[k][1]>>
        /\ \A c \in 1..Len(calls) :
              IsLoopSplit(calls[c]) => calls[c].file[2] \in 1..(pos - 1)
        /\ pc = "done" =>
              \E c \in CallsTo(<<"split", Len(all_silences) + 1, 0>>) :
                  IsFinalSplit(calls[c])
        /\ \A c1, c2 \in 1..Len(calls) :
              (/\ calls[c1].op = "extract_split"
               /\ calls[c2].op = "extract_split"
               /\ calls[c1].file = calls[c2].file) => c1 = c2

C10_Witness ==
    /\ pc = "done"
    /\ \E k1, k2 \in 1..Len(all_silences) :
          /\ k1 < k2
          /\ SpanBefore(k1) < 10
          /\ CallsTo(<<"split", k1, 0>>) = {}
          /\ CallsTo(<<"split", k2, 0>>) # {}

\* -------------------------------------------------------------------------
\* C4: idempotence.  A run with the arguments of the completed run before it
\* makes no engine call at all and leaves every cache file as it was.
SameAsCompletedRun == prevRun.outcome = "done" /\ prevRun.args = args

CacheFiles(d) == [f \in { g \in DOMAIN d : g[1] = "silence" } |-> d[f]]

\* C4 as stated: no engine call, probes included.
C4_NoEngineCall == (pc = "done" /\ SameAsCompletedRun) => calls = <<>>

C4_OnlyProbesCalled ==
    SameAsCompletedRun =>
        /\ \A c \in 1..Len(calls) : calls[c].op = "probe"
        /\ pc = "done" => Len(calls) = 2

C4_CachesKept ==
    (SameAsCompletedRun /\ pc \notin {"done", "killed", "failed"}) =>
        CacheFiles(disk') = CacheFiles(disk)

\* C4 amended: the only engine calls are the two probes (of extract_audio_chunks
\* and of get_audio_codec), and every cache file is left as it was.
C4_IdempotentButProbes == [](C4_OnlyProbesCalled) /\ [][C4_CachesKept]_vars

C4_Witness ==
    /\ pc = "done"
    /\ SameAsCompletedRun
    /\ calls = <<Probe, Probe>>
    /\ \E f \in DOMAIN disk : f[1] = "silence" /\ Len(disk[f].data) >= 1
    /\ \E f \in DOMAIN disk : f[1] = "cover" /\ f[2] >= 2

\* -------------------------------------------------------------------------
\* C5: recovery from interruption.  A file left partial by the interrupted
\* first run is complete after the next run with the same arguments.
C5_PartialOverwritten ==
    (/\ pc = "done"
     /\ runs = 2
     /\ prevRun.outcome = "killed"
     /\ prevRun.args = args) =>
        \A f \in DOMAIN disk : disk[f].state # "partial"

\* -------------------------------------------------------------------------
\* C6: detect_silence returns intervals strictly in (start, end) pairs: an end
\* marker is paired with the start marker that opened it, a start marker is
\* used in at most one interval, a start with no later end gives no interval.
RECURSIVE StrictPairs(_, _, _)
StrictPairs(lines, k, open) ==
    IF k > Len(lines) THEN <<>>
    ELSE IF lines[k].kind = "silence_start"
         THEN StrictPairs(lines, k + 1, <<lines[k].t>>)
         ELSE IF lines[k].kind = "silence_end" /\ open # <<>>
              THEN << <<open[1], lines[k].t>> >> \o StrictPairs(lines, k + 1, <<>>)
              ELSE StrictPairs(lines, k + 1, open)

C6_StrictPairs == ppc = "returned" => parse.silences = StrictPairs(stderr, 1, <<>>)

\* -------------------------------------------------------------------------
\* C7: the cache key is (segment number, threshold).  In the detection loop an
\* existing cache file of the segment and threshold means no detection call
\* and no write; an absent one means a detection call and a write of that
\* file only; no other file changes; the splitter loads the files of the
\* given threshold only.
C7_DetectionStep ==
    (pc = "detecting" /\ j <= Len(chunk_files)) =>
        LET n == chunk_files[j]
            f == <<"silence", n, args.silence_threshold>>
        IN /\ f \in DOMAIN disk =>
                 /\ disk' = disk
                 /\ calls' = calls
                 /\ j' = j + 1
           /\ f \notin DOMAIN disk =>
                 /\ Len(calls') = Len(calls) + 1
                 /\ calls'[Len(calls')].op = "silencedetect"
                 /\ calls'[Len(calls')].file = <<"chunk", n, 0>>
                 /\ pc' = "detecting" => (f \in DOMAIN disk' /\ j' = j + 1)
           /\ \A g \in DOMAIN disk :
                 g # f => (g \in DOMAIN disk' /\ disk'[g] = disk[g])
           /\ DOMAIN disk' \subseteq (DOMAIN disk \cup {f})

C7_CacheKey ==
    /\ [][C7_DetectionStep]_vars
    /\ [](pc = "splitting" => PlacedWith(1))

\* A second run with another silence_duration and chunk_duration has passed
\* chunk 1 without a detection call, and a cache file of the other threshold
\* is in the directory.
C7_Witness ==
    /\ pc = "splitting"
    /\ runs = 2
    /\ prevRun.args.silence_threshold = args.silence_threshold
    /\ prevRun.args.silence_duration # args.silence_duration
    /\ prevRun.args.chunk_duration # args.chunk_duration
    /\ \A c \in 1..Len(calls) : calls[c].op # "silencedetect"
    /\ Len(chunk_files) >= 1
    /\ Len(all_silences) >= 1

\* -------------------------------------------------------------------------
\* C8: extract_audio_chunks returns ceil(T/d) paths chunk_1 .. chunk_n; the
\* segment at position i (from 0) is extracted from i*d with length d and
\* starts inside the source; an existing segment file is returned without an
\* extract call.
C8_ChunkList ==
    pc \in {"detecting", "loading", "splitting", "done"} =>
        LET n == Len(chunk_files)
            d == args.chunk_duration
        IN /\ n * d >= T
           /\ n = 0 \/ (n - 1) * d < T
           /\ \A k \in 1..n : chunk_files[k] = k

C8_ChunkCalls ==
    \A c \in 1..Len(calls) :
        calls[c].op = "extract_chunk" =>
            LET k == calls[c].file[2]
            IN /\ calls[c].file = <<"chunk", k, 0>>
               /\ calls[c].args = <<(k - 1) * args.chunk_duration, args.chunk_duration>>
               /\ (k - 1) * args.chunk_duration < T

C8_ChunkStep ==
    (pc = "chunking" /\ i < num_chunks /\ pc' = "chunking") =>
        /\ chunk_files' = Append(chunk_files, i + 1)
        /\ IF <<"chunk", i + 1, 0>> \in DOMAIN disk
           THEN calls' = calls /\ disk' = disk
           ELSE /\ Len(calls') = Len(calls) + 1
                /\ calls'[Len(calls')].op = "extract_chunk"
                /\ calls'[Len(calls')].file = <<"chunk", i + 1, 0>>

C8_Chunker == [](C8_ChunkList /\ C8_ChunkCalls) /\ [][C8_ChunkStep]_vars

\* Two chunks are returned, the first found on disk, the second extracted.
C8_Witness ==
    /\ pc = "detecting"
    /\ Len(chunk_files) = 2
    /\ T < 2 * args.chunk_duration
    /\ CallsTo(<<"chunk", 1, 0>>) = {}
    /\ CallsTo(<<"chunk", 2, 0>>) # {}

\* -------------------------------------------------------------------------
\* C9: nothing serialises the existence check and the write of a cache file.
\* While one run is between its check and the end of its write for a segment,
\* the check of the other run for the same segment can be taken.
C9_CheckNeverWaits ==
    \A p \in Procs : \A q \in Procs \ {p} :
        (InWindow(p) /\ rpc[q] = "check" /\ rj[q] = rj[p]) => ENABLED RaceCheck(q)

\* Both runs found the same cache file absent, both detected, both wrote it.
C9_BothWrote ==
    /\ rpc # <<>>
    /\ \E n \in DOMAIN rwrites : rwrites[n] = 2

=============================================================================
